---- MODULE Spec2Model ----
(***************************************************************************)
(* Error aggregation and response synthesis of the crates.io backend:      *)
(* ErrorBuilder (src/util/errors.rs), the JSON error catalog                *)
(* (src/util/errors/json.rs) and the EnsureWellFormed500 middleware.        *)
(*                                                                         *)
(* Texts are TLA+ strings; TLC evaluates \o, Len and SubSeq on them, so     *)
(* rendering and suffix tests are computed on the real characters.          *)
(***************************************************************************)
EXTENDS Integers, Sequences, FiniteSets, TLC

VARIABLES
    pc,        \* position of the request: start, handling, built, handled, sent
    origin,    \* how the value being unwound came to exist (collaborator or constructor)
    result,    \* the Result / Option / AppResult travelling up the call stack
    calls,     \* number of invocations of every response callback
    history,   \* the ChainError / From calls applied to result, oldest first
    built,     \* the BuiltResponse returned by ErrorBuilder::build
    handler,   \* the AfterResult leaving the endpoint
    log,       \* what the request log received
    client,    \* the AfterResult leaving EnsureWellFormed500
    twin,      \* a second builder of the same shape run in lockstep (TwinSpec only)
    answer,    \* the last call of a pure function and what it returned (CallSpec only)
    requests   \* the values of the requests handled concurrently (ConcSpec only)

vars ==
    <<pc, origin, result, calls, history, built, handler, log, client, twin, answer,
      requests>>

----------------------------------------------------------------------------
(* Bounds *)

MaxOps == 3

MaxTwinOps == 2

MaxConcOps == 2

----------------------------------------------------------------------------
(* Option *)

None == [tag |-> "None"]

Some(v) == [tag |-> "Some", value |-> v]

is_some(o) == o.tag = "Some"

is_none(o) == o.tag = "None"

\* a panic of the running thread, with its message
Panic(msg) == [panic |-> msg]

IsPanic(v) == "panic" \in DOMAIN v

unwrap(o) ==
    IF is_some(o) THEN o.value
    ELSE Panic("called Option::unwrap() on a None value")

----------------------------------------------------------------------------
(* str helpers *)

ends_with(s, suffix) ==
    /\ Len(s) >= Len(suffix)
    /\ SubSeq(s, Len(s) - Len(suffix) + 1, Len(s)) = suffix

contains(s, t) ==
    \E i \in 1..(Len(s) - Len(t) + 1) : SubSeq(s, i, i + Len(t) - 1) = t

RECURSIVE join(_, _)
join(strs, sep) ==
    IF strs = <<>> THEN ""
    ELSE IF Len(strs) = 1 THEN strs[1]
    ELSE strs[1] \o sep \o join(Tail(strs), sep)

rev(s) == [i \in 1..Len(s) |-> s[Len(s) + 1 - i]]

----------------------------------------------------------------------------
(* Error values (Box<dyn Error>): a concrete type, a variant and a message *)

Err_(type, variant, message) ==
    [type |-> type, variant |-> variant, message |-> message]

DieselNotFound == Err_("DieselError", "NotFound", "")

DieselDatabaseError(message) == Err_("DieselError", "DatabaseError", message)

IoError(message) == Err_("io::Error", "", message)

Forbidden == Err_("Forbidden", "", "")

NotFound == Err_("NotFound", "", "")

ReadOnlyMode == Err_("ReadOnlyMode", "", "")

InsecurelyGeneratedTokenRevoked == Err_("InsecurelyGeneratedTokenRevoked", "", "")

GhNotFound == Err_("GhNotFound", "", "")

TooManyRequestsError == Err_("TooManyRequests", "", "")

\* impl fmt::Display
to_string(e) ==
    CASE e.type = "NotFound" -> "NotFound"
      [] e.type = "Forbidden" -> "Forbidden"
      [] e.type = "ReadOnlyMode" -> "Tried to write in read only mode"
      [] e.type = "InsecurelyGeneratedTokenRevoked" -> "insecurely generated, revoked 2020-07"
      [] e.type = "GhNotFound" -> "not found returned by GitHub API"
      [] e.type = "TooManyRequests" -> "TooManyRequests"
      [] e.type = "DieselError" /\ e.variant = "NotFound" -> "NotFound"
      [] OTHER -> e.message

----------------------------------------------------------------------------
(* Inputs *)

InternalMessages == {"inner", "middle", "outer"}

\* ErrorBuilder::internal takes any Cow<'static, str>, the empty one included
InternalInfos == InternalMessages \cup {""}

UserMessages == {"inner", "invalid semver"}

DatabaseMessages ==
    { "cannot execute INSERT in a read-only transaction",
      "read-only transaction was rolled back",
      "duplicate key value" }

IoMessages ==
    {"permission denied", "connection reset", "socket closed in a read-only transaction"}

RawErrors ==
    {DieselNotFound}
        \cup {DieselDatabaseError(m) : m \in DatabaseMessages}
        \cup {IoError(m) : m \in IoMessages}

----------------------------------------------------------------------------
(* Response catalog: src/util/errors/json.rs *)

AppResponse(status, headers, body) ==
    [status |-> status, headers |-> headers, body |-> body]

RECURSIVE json_string(_)
\* the detail as a JSON string: the quote and the backslash are escaped
\* (character by character; the text is halved to keep the evaluation shallow)
json_string(s) ==
    IF Len(s) = 0 THEN ""
    ELSE IF Len(s) = 1
         THEN CASE s = "\"" -> "\\\""
                [] s = "\\" -> "\\\\"
                [] OTHER -> s
         ELSE json_string(SubSeq(s, 1, Len(s) \div 2))
                  \o json_string(SubSeq(s, (Len(s) \div 2) + 1, Len(s)))

\* variant: the status of the response is left at its default
json_error_default_status(detail, status) ==
    AppResponse(200, {}, "{\"errors\":[{\"detail\":\"" \o json_string(detail) \o "\"}]}")

json_error(detail, status) ==
    AppResponse(status, {}, "{\"errors\":[{\"detail\":\"" \o json_string(detail) \o "\"}]}")

NotFound_response == json_error("Not Found", 404)

Forbidden_response == json_error("must be logged in to perform that action", 403)

ReadOnlyMode_response ==
    json_error("Crates.io is currently in read-only mode for maintenance. "
                   \o "Please try again later.", 503)

CargoLegacy_response(msg) == json_error(msg, 200)

BadRequest_response(msg) == json_error(msg, 400)

ServerError_response(msg) == json_error(msg, 500)

InsecurelyGeneratedTokenRevoked_response ==
    json_error("The given API token does not match the format used by crates.io. "
                   \o "Tokens generated before 2020-07-14 were generated with an insecure "
                   \o "random number generator, and have been revoked. You can generate a "
                   \o "new token at https://crates.io/me. "
                   \o "For more information please see "
                   \o "https://blog.rust-lang.org/2020/07/14/crates-io-security-advisory.html. "
                   \o "We apologize for any inconvenience.", 401)

(* chrono::NaiveDateTime and its format("%a, %d %b %Y %H:%M:%S GMT") *)

NaiveDateTime(year, month, day, hour, minute, second) ==
    [year |-> year, month |-> month, day |-> day,
     hour |-> hour, minute |-> minute, second |-> second]

Digit(n) == SubSeq("0123456789", n + 1, n + 1)

Pad2(n) == Digit((n \div 10) % 10) \o Digit(n % 10)

Pad4(n) == Pad2(n \div 100) \o Pad2(n % 100)

\* days since 1970-01-01 in the proleptic Gregorian calendar
days_from_civil(year, month, day) ==
    LET y == IF month <= 2 THEN year - 1 ELSE year
        era == y \div 400
        yoe == y - era * 400
        mp == IF month > 2 THEN month - 3 ELSE month + 9
        doy == (153 * mp + 2) \div 5 + day - 1
        doe == yoe * 365 + yoe \div 4 - yoe \div 100 + doy
    IN era * 146097 + doe - 719468

WeekdayNames == <<"Sun", "Mon", "Tue", "Wed", "Thu", "Fri", "Sat">>

MonthNames ==
    <<"Jan", "Feb", "Mar", "Apr", "May", "Jun", "Jul", "Aug", "Sep", "Oct", "Nov", "Dec">>

\* %a
weekday(dt) ==
    WeekdayNames[((days_from_civil(dt.year, dt.month, dt.day) + 4) % 7) + 1]

\* retry_after.format(HTTP_DATE_FORMAT).to_string()
format_http_date(dt) ==
    weekday(dt) \o ", " \o Pad2(dt.day) \o " " \o MonthNames[dt.month] \o " "
        \o Pad4(dt.year) \o " " \o Pad2(dt.hour) \o ":" \o Pad2(dt.minute) \o ":"
        \o Pad2(dt.second) \o " GMT"

TooManyRequests(retry_after) == [retry_after |-> retry_after]

\* characters a header value may hold: visible ASCII and the space
\* (the grave accent, also allowed, is left out of this text)
HeaderValueChars ==
    " !\"#$%&'()*+,-./0123456789:;<=>?@ABCDEFGHIJKLMNOPQRSTUVWXYZ[\\]^_abcdefghijklmnopqrstuvwxyz{|}~"

\* String -> HeaderValue
HeaderValue_try_from(s) ==
    IF \A i \in 1..Len(s) : contains(HeaderValueChars, SubSeq(s, i, i))
    THEN [tag |-> "Ok", value |-> s]
    ELSE [tag |-> "Err", value |-> "InvalidHeaderValue"]

\* variant: the header is written from the timestamp, not from the formatted date
TooManyRequests_response_unformatted_header(self) ==
    LET retry_after == format_http_date(self.retry_after)
        detail == "You have published too many crates in a "
                      \o "short period of time. Please try again after " \o retry_after
                      \o " or email help@crates.io to have your limit increased."
        dt == self.retry_after
        timestamp == Pad4(dt.year) \o "-" \o Pad2(dt.month) \o "-" \o Pad2(dt.day)
                         \o " " \o Pad2(dt.hour) \o ":" \o Pad2(dt.minute)
                         \o ":" \o Pad2(dt.second)
    IN [json_error(detail, 429) EXCEPT
           !.headers = @ \cup {<<"Retry-After", timestamp>>}]

TooManyRequests_response(self) ==
    LET retry_after == format_http_date(self.retry_after)
        detail == "You have published too many crates in a "
                      \o "short period of time. Please try again after " \o retry_after
                      \o " or email help@crates.io to have your limit increased."
        value == HeaderValue_try_from(retry_after)
    IN IF value.tag = "Err"
       THEN Panic("HTTP_DATE_FORMAT contains invalid char")
       ELSE [json_error(detail, 429) EXCEPT
                !.headers = @ \cup {<<"Retry-After", value.value>>}]

RetryAfters ==
    { NaiveDateTime(2019, 10, 18, 15, 16, 17),
      NaiveDateTime(2020, 2, 29, 0, 0, 0),
      NaiveDateTime(2000, 1, 1, 9, 5, 3),
      NaiveDateTime(1969, 12, 31, 23, 59, 59),
      NaiveDateTime(2024, 3, 1, 12, 0, 0) }

UserFacing_bad_request(user_message) == BadRequest_response(user_message)

UserFacing_custom_bad_request(user_message) == BadRequest_response(user_message)

UserFacing_server_error(user_message) == ServerError_response(user_message)

UserFacing_cargo_err_legacy(user_message) == CargoLegacy_response(user_message)

UserFacing_custom_cargo_err_legacy(user_message) == CargoLegacy_response(user_message)

----------------------------------------------------------------------------
(* ChainElement and ErrorBuilder: src/util/errors.rs *)

Internal(info) == [tag |-> "Internal", info |-> info]

Error(e) == [tag |-> "Error", e |-> e]

ErrorBuilder(chain, user_facing_response) ==
    [chain |-> chain, user_facing_response |-> user_facing_response]

ErrorBuilder_bad_request(user_message) ==
    ErrorBuilder(<<>>, Some(UserFacing_bad_request(user_message)))

ErrorBuilder_custom_bad_request(user_message) ==
    ErrorBuilder(<<>>, Some(UserFacing_custom_bad_request(user_message)))

ErrorBuilder_server_error(user_message) ==
    ErrorBuilder(<<>>, Some(ServerError_response(user_message)))

ErrorBuilder_internal(info) == ErrorBuilder(<<Internal(info)>>, None)

\* variant: the user message is also recorded as the first chain entry
ErrorBuilder_cargo_err_legacy_records_message(user_message) ==
    ErrorBuilder(<<Internal(user_message)>>,
                 Some(UserFacing_cargo_err_legacy(user_message)))

ErrorBuilder_cargo_err_legacy(user_message) ==
    ErrorBuilder(<<>>, Some(UserFacing_cargo_err_legacy(user_message)))

ErrorBuilder_custom_cargo_err_legacy(user_message) ==
    ErrorBuilder(<<>>, Some(UserFacing_custom_cargo_err_legacy(user_message)))

NotFound_root_cause == ErrorBuilder(<<Error(NotFound)>>, Some(NotFound_response))

\* variant: the kind is committed as a response only, as the message constructors do
Forbidden_root_cause_empty_chain == ErrorBuilder(<<>>, Some(Forbidden_response))

Forbidden_root_cause == ErrorBuilder(<<Error(Forbidden)>>, Some(Forbidden_response))

ReadOnlyMode_root_cause ==
    ErrorBuilder(<<Error(ReadOnlyMode)>>, Some(ReadOnlyMode_response))

InsecurelyGeneratedTokenRevoked_root_cause ==
    ErrorBuilder(<<Error(InsecurelyGeneratedTokenRevoked)>>,
                 Some(InsecurelyGeneratedTokenRevoked_response))

TooManyRequests_root_cause(self) ==
    ErrorBuilder(<<Error(TooManyRequestsError)>>, Some(TooManyRequests_response(self)))

\* variant: the newest entry is tested instead of the root
root_cause_is_last(self, T) ==
    IF self.chain = <<>> THEN FALSE
    ELSE self.chain[Len(self.chain)].tag = "Error"
             /\ self.chain[Len(self.chain)].e.type = T

root_cause_is(self, T) ==
    IF self.chain = <<>> THEN FALSE
    ELSE self.chain[1].tag = "Error" /\ self.chain[1].e.type = T

element_text(element) ==
    IF element.tag = "Internal" THEN element.info ELSE to_string(element.e)

\* variant: the chain is rendered without .rev()
cause_chain_insertion_order(self) ==
    join([i \in 1..Len(self.chain) |-> element_text(self.chain[i])], " caused by ")

cause_chain(self) ==
    join([i \in 1..Len(self.chain) |-> element_text(rev(self.chain)[i])], " caused by ")

Response(response, cause) ==
    [tag |-> "Response", response |-> response, cause |-> cause]

InternalAppError(text) == Err_("InternalAppError", "", text)

BuiltError(e) == [tag |-> "Error", error |-> e]

\* variant: the cause is rendered whether or not the chain is empty
build_cause_always(self) ==
    IF is_some(self.user_facing_response)
    THEN Response(self.user_facing_response.value, Some(cause_chain(self)))
    ELSE IF /\ self.chain # <<>>
            /\ self.chain[1].tag = "Error"
            /\ self.chain[1].e.type = "DieselError"
            /\ self.chain[1].e.variant = "NotFound"
         THEN Response(NotFound_response, None)
         ELSE BuiltError(InternalAppError(cause_chain(self)))

\* variant: the root cause is tested against the NotFound of the catalog
build_catalog_not_found(self) ==
    IF is_some(self.user_facing_response)
    THEN Response(self.user_facing_response.value,
                  IF self.chain = <<>> THEN None ELSE Some(cause_chain(self)))
    ELSE IF /\ self.chain # <<>>
            /\ self.chain[1].tag = "Error"
            /\ self.chain[1].e.type = "NotFound"
         THEN Response(NotFound_response, None)
         ELSE BuiltError(InternalAppError(cause_chain(self)))

\* variant: the opaque error carries the root cause only
build_root_only(self) ==
    IF is_some(self.user_facing_response)
    THEN Response(self.user_facing_response.value,
                  IF self.chain = <<>> THEN None ELSE Some(cause_chain(self)))
    ELSE IF /\ self.chain # <<>>
            /\ self.chain[1].tag = "Error"
            /\ self.chain[1].e.type = "DieselError"
            /\ self.chain[1].e.variant = "NotFound"
         THEN Response(NotFound_response, None)
         ELSE BuiltError(InternalAppError(
                  IF self.chain = <<>> THEN "" ELSE element_text(self.chain[1])))

\* variant: the record-absent root is tested before the committed response
build_not_found_first(self) ==
    IF /\ self.chain # <<>>
       /\ self.chain[1].tag = "Error"
       /\ self.chain[1].e.type = "DieselError"
       /\ self.chain[1].e.variant = "NotFound"
    THEN Response(NotFound_response, None)
    ELSE IF is_some(self.user_facing_response)
         THEN Response(self.user_facing_response.value,
                       IF self.chain = <<>> THEN None ELSE Some(cause_chain(self)))
         ELSE BuiltError(InternalAppError(cause_chain(self)))

\* variant: no conversion of the database NotFound
build_without_convenience(self) ==
    IF is_some(self.user_facing_response)
    THEN Response(self.user_facing_response.value,
                  IF self.chain = <<>> THEN None ELSE Some(cause_chain(self)))
    ELSE BuiltError(InternalAppError(cause_chain(self)))

\* variant: the response is unwrapped without the is_some test
build_unwrap_unchecked(self) ==
    IF /\ is_none(self.user_facing_response)
       /\ self.chain # <<>>
       /\ self.chain[1].tag = "Error"
       /\ self.chain[1].e.type = "DieselError"
       /\ self.chain[1].e.variant = "NotFound"
    THEN Response(NotFound_response, None)
    ELSE Response(unwrap(self.user_facing_response),
                  IF self.chain = <<>> THEN None ELSE Some(cause_chain(self)))

build(self) ==
    IF is_some(self.user_facing_response)
    THEN Response(unwrap(self.user_facing_response),
                  IF self.chain = <<>> THEN None ELSE Some(cause_chain(self)))
    ELSE IF /\ self.chain # <<>>
            /\ self.chain[1].tag = "Error"
            /\ self.chain[1].e.type = "DieselError"
            /\ self.chain[1].e.variant = "NotFound"
         THEN Response(NotFound_response, None)
         ELSE BuiltError(InternalAppError(cause_chain(self)))

\* variant: the message is compared with the phrase instead of its suffix
convert_special_errors_whole_message(cause) ==
    IF /\ cause.type = "DieselError"
       /\ cause.variant = "DatabaseError"
       /\ cause.message = "read-only transaction"
    THEN ReadOnlyMode_root_cause
    ELSE ErrorBuilder(<<Error(cause)>>, None)

\* variant: the signature is looked for in the text of any failure
convert_special_errors_any_type(cause) ==
    IF ends_with(to_string(cause), "read-only transaction")
    THEN ReadOnlyMode_root_cause
    ELSE ErrorBuilder(<<Error(cause)>>, None)

\* variant: the read-only Fault keeps the storage failure as its root
convert_special_errors_keeps_cause(cause) ==
    IF /\ cause.type = "DieselError"
       /\ cause.variant = "DatabaseError"
       /\ ends_with(cause.message, "read-only transaction")
    THEN ErrorBuilder(<<Error(cause)>>, Some(ReadOnlyMode_response))
    ELSE ErrorBuilder(<<Error(cause)>>, None)

\* variant: the phrase is looked for anywhere in the message
convert_special_errors_contains(cause) ==
    IF /\ cause.type = "DieselError"
       /\ cause.variant = "DatabaseError"
       /\ contains(cause.message, "read-only transaction")
    THEN ReadOnlyMode_root_cause
    ELSE ErrorBuilder(<<Error(cause)>>, None)

convert_special_errors(cause) ==
    IF /\ cause.type = "DieselError"
       /\ cause.variant = "DatabaseError"
       /\ ends_with(cause.message, "read-only transaction")
    THEN ReadOnlyMode_root_cause
    ELSE ErrorBuilder(<<Error(cause)>>, None)

----------------------------------------------------------------------------
(* The values the ChainError trait is implemented for *)

Ok(kind, v) == [kind |-> kind, tag |-> "Ok", value |-> v]

ResultErr(e) == [kind |-> "Result", tag |-> "Err", err |-> e]

AppErr(builder) == [kind |-> "AppResult", tag |-> "Err", builder |-> builder]

OptionSome(v) == [kind |-> "Option", tag |-> "Some", value |-> v]

OptionNone == [kind |-> "Option", tag |-> "None"]

NoResult == [kind |-> "Nothing", tag |-> "Nothing"]

Moved == [kind |-> "Moved", tag |-> "Moved"]

IsFault(r) == r.kind = "AppResult" /\ r.tag = "Err"

Values == {"v"}

RawResults ==
    {Ok("Result", v) : v \in Values}
        \cup {ResultErr(e) : e \in RawErrors}
        \cup {OptionSome(v) : v \in Values}
        \cup {OptionNone}

(* Response callbacks (fn() -> AppResponse) handed to chain_user_facing_fallback *)

Callbacks == {"Forbidden.response", "server_error", "cargo_err_legacy"}

callback(cb) ==
    CASE cb = "Forbidden.response" -> Forbidden_response
      [] cb = "server_error" -> UserFacing_server_error("Internal Server Error")
      [] cb = "cargo_err_legacy" -> UserFacing_cargo_err_legacy("outer")
      [] cb = "NotFound.response" -> NotFound_response

(* A call of a trait method yields the new value and the callbacks it ran *)

Returned(r, invoked) == [result |-> r, invoked |-> invoked]

\* variant: the builder is rebuilt around the extended chain only
AppResult_chain_internal_err_cause_rebuilt(self, internal_message) ==
    IF self.tag = "Ok" THEN self
    ELSE AppErr(ErrorBuilder(Append(self.builder.chain, Internal(internal_message)),
                             None))

\* variant: context is not recorded once a response is committed
AppResult_chain_internal_err_cause_committed_skips(self, internal_message) ==
    IF self.tag = "Ok" THEN self
    ELSE IF is_some(self.builder.user_facing_response) THEN self
    ELSE AppErr([self.builder EXCEPT
                    !.chain = Append(@, Internal(internal_message))])

\* variant: the message is inserted at the front of the chain
AppResult_chain_internal_err_cause_front(self, internal_message) ==
    IF self.tag = "Ok" THEN self
    ELSE AppErr([self.builder EXCEPT
                    !.chain = <<Internal(internal_message)>> \o @])

\* variant: the message is pushed as an error of its own
AppResult_chain_internal_err_cause_as_error(self, internal_message) ==
    IF self.tag = "Ok" THEN self
    ELSE AppErr([self.builder EXCEPT
                    !.chain = Append(@, Error(InternalAppError(internal_message)))])

\* impl<T> ChainError<T> for AppResult<T>
AppResult_chain_internal_err_cause(self, internal_message) ==
    IF self.tag = "Ok" THEN self
    ELSE AppErr([self.builder EXCEPT
                    !.chain = Append(@, Internal(internal_message))])

\* variant: the fallback is applied unconditionally (last wins)
AppResult_chain_user_facing_fallback_overwrite(self, cb) ==
    IF self.tag = "Ok" THEN Returned(self, <<>>)
    ELSE Returned(AppErr([self.builder EXCEPT
                             !.user_facing_response = Some(callback(cb))]),
                  <<cb>>)

\* variant: the response is constructed before the test (eager argument)
AppResult_chain_user_facing_fallback_eager(self, cb) ==
    IF self.tag = "Ok" THEN Returned(self, <<>>)
    ELSE IF is_none(self.builder.user_facing_response)
         THEN Returned(AppErr([self.builder EXCEPT
                                  !.user_facing_response = Some(callback(cb))]),
                       <<cb>>)
         ELSE Returned(self, <<cb>>)

\* variant: committing a response starts the chain afresh, as for an absent value
AppResult_chain_user_facing_fallback_clears_chain(self, cb) ==
    IF self.tag = "Ok" THEN Returned(self, <<>>)
    ELSE IF is_none(self.builder.user_facing_response)
         THEN Returned(AppErr(ErrorBuilder(<<>>, Some(callback(cb)))), <<cb>>)
         ELSE Returned(self, <<>>)

AppResult_chain_user_facing_fallback(self, cb) ==
    IF self.tag = "Ok" THEN Returned(self, <<>>)
    ELSE IF is_none(self.builder.user_facing_response)
         THEN Returned(AppErr([self.builder EXCEPT
                                  !.user_facing_response = Some(callback(cb))]),
                       <<cb>>)
         ELSE Returned(self, <<>>)

\* impl<E: Error + 'static> From<E> for Box<ErrorBuilder>, applied by `?`
From(self) ==
    IF self.tag = "Ok" THEN Ok("AppResult", self.value)
    ELSE AppErr(convert_special_errors(self.err))

\* variant: the cause is wrapped without the special conversions
Result_chain_internal_err_cause_unclassified(self, internal_message) ==
    IF self.tag = "Ok" THEN Ok("AppResult", self.value)
    ELSE AppResult_chain_internal_err_cause(
             AppErr(ErrorBuilder(<<Error(self.err)>>, None)), internal_message)

\* impl<T, E: Error + 'static> ChainError<T> for Result<T, E>
Result_chain_internal_err_cause(self, internal_message) ==
    IF self.tag = "Ok" THEN Ok("AppResult", self.value)
    ELSE AppResult_chain_internal_err_cause(
             AppErr(convert_special_errors(self.err)), internal_message)

\* variant: the cause is dropped, as for an absent value
Result_chain_user_facing_fallback_drops_cause(self, cb) ==
    IF self.tag = "Ok" THEN Returned(Ok("AppResult", self.value), <<>>)
    ELSE Returned(AppErr(ErrorBuilder(<<>>, Some(callback(cb)))), <<cb>>)

\* variant: the fallback replaces the failure by a value
Result_chain_user_facing_fallback_recovers(self, cb) ==
    IF self.tag = "Ok" THEN Returned(Ok("AppResult", self.value), <<>>)
    ELSE Returned(Ok("AppResult", "v"), <<cb>>)

Result_chain_user_facing_fallback(self, cb) ==
    IF self.tag = "Ok" THEN Returned(Ok("AppResult", self.value), <<>>)
    ELSE AppResult_chain_user_facing_fallback(
             AppErr(convert_special_errors(self.err)), cb)

\* variant: the builder for an absent value is left empty
Option_chain_internal_err_cause_empty(self, internal_message) ==
    IF self.tag = "Some" THEN Ok("AppResult", self.value)
    ELSE AppErr(ErrorBuilder(<<>>, None))

\* impl<T> ChainError<T> for Option<T>
Option_chain_internal_err_cause(self, internal_message) ==
    IF self.tag = "Some" THEN Ok("AppResult", self.value)
    ELSE AppErr(ErrorBuilder(<<Internal(internal_message)>>, None))

\* variant: the absence is recorded as the root of the chain
Option_chain_user_facing_fallback_records_absence(self, cb) ==
    IF self.tag = "Some" THEN Returned(Ok("AppResult", self.value), <<>>)
    ELSE Returned(AppErr(ErrorBuilder(<<Internal("value was None")>>, Some(callback(cb)))),
                  <<cb>>)

Option_chain_user_facing_fallback(self, cb) ==
    IF self.tag = "Some" THEN Returned(Ok("AppResult", self.value), <<>>)
    ELSE Returned(AppErr(ErrorBuilder(<<>>, Some(callback(cb)))), <<cb>>)

\* trait ChainError<T>: static dispatch on the receiver's type
chain_internal_err_cause(self, cause) ==
    CASE self.kind = "Result" -> Result_chain_internal_err_cause(self, cause)
      [] self.kind = "Option" -> Option_chain_internal_err_cause(self, cause)
      [] self.kind = "AppResult" -> AppResult_chain_internal_err_cause(self, cause)

chain_user_facing_fallback(self, cb) ==
    CASE self.kind = "Result" -> Result_chain_user_facing_fallback(self, cb)
      [] self.kind = "Option" -> Option_chain_user_facing_fallback(self, cb)
      [] self.kind = "AppResult" -> AppResult_chain_user_facing_fallback(self, cb)

----------------------------------------------------------------------------
(* The pipeline around the builder *)

AfterOk(response) == [tag |-> "Ok", response |-> response]

AfterErr(e) == [tag |-> "Err", error |-> e]

Pending == [tag |-> "Pending"]

NoLog == [cause |-> None, error |-> None]

\* the endpoint boundary: a Response is written as is and its cause logged,
\* an Error is logged and propagated up the middleware stack
respond(b) ==
    IF b.tag = "Response"
    THEN [handler |-> AfterOk(b.response), log |-> [cause |-> b.cause, error |-> None]]
    ELSE [handler |-> AfterErr(b.error),
          log |-> [cause |-> None, error |-> Some(to_string(b.error))]]

InternalServerErrorBody == "Internal Server Error"

\* variant: the error is passed up unchanged
after_passthrough(res) == res

\* variant: the body of the 500 response is the text of the error
after_error_text(res) ==
    IF res.tag = "Ok" THEN res
    ELSE AfterOk(AppResponse(500,
                             {<<"Content-Length", Len(to_string(res.error))>>},
                             to_string(res.error)))

\* EnsureWellFormed500::after
after(res) ==
    IF res.tag = "Ok" THEN res
    ELSE AfterOk(AppResponse(500,
                             {<<"Content-Length", Len(InternalServerErrorBody)>>},
                             InternalServerErrorBody))

----------------------------------------------------------------------------
(* github.rs: GET requests to the GitHub API *)

\* reqwest::Error; status() is the status of the response it was made from
ReqwestError(status, message) ==
    [type |-> "reqwest::Error", variant |-> "", message |-> message, status |-> status]

\* Result::unwrap_err
unwrap_err(r) ==
    IF r.tag = "Err" THEN r.builder
    ELSE Panic("called Result::unwrap_err() on an Ok value")

\* variant: an unauthorized request is reported like any other status
handle_error_response_unauthorized_internal(app, error) ==
    CASE error.status = Some(403) ->
             ErrorBuilder_custom_cargo_err_legacy(
                 "It looks like you don't have permission to query a necessary "
                     \o "property from Github to complete this request. You may "
                     \o "need to re-authenticate on crates.io to grant permission "
                     \o "to read github org memberships. Just go to https://"
                     \o app.config.domain_name \o "/login")
      [] error.status = Some(404) ->
             unwrap_err(Result_chain_user_facing_fallback(
                            ResultErr(GhNotFound), "NotFound.response").result)
      [] OTHER ->
             ErrorBuilder_internal(
                 "didn't get a 200 result from github: " \o to_string(error))

handle_error_response(app, error) ==
    CASE error.status \in {Some(401), Some(403)} ->
             ErrorBuilder_custom_cargo_err_legacy(
                 "It looks like you don't have permission to query a necessary "
                     \o "property from Github to complete this request. You may "
                     \o "need to re-authenticate on crates.io to grant permission "
                     \o "to read github org memberships. Just go to https://"
                     \o app.config.domain_name \o "/login")
      [] error.status = Some(404) ->
             unwrap_err(Result_chain_user_facing_fallback(
                            ResultErr(GhNotFound), "NotFound.response").result)
      [] OTHER ->
             ErrorBuilder_internal(
                 "didn't get a 200 result from github: " \o to_string(error))

\* Response::error_for_status: a 4xx or 5xx response becomes an error
error_for_status(response) ==
    IF response.status >= 400 /\ response.status < 600
    THEN ResultErr(ReqwestError(Some(response.status),
                                "HTTP status "
                                    \o (IF response.status < 500 THEN "client" ELSE "server")
                                    \o " error (" \o Digit(response.status \div 100)
                                    \o Pad2(response.status % 100) \o ")"))
    ELSE Ok("Result", response)

\* Response::json: the body is deserialized into T
json(response) ==
    IF is_some(response.json) THEN Ok("Result", unwrap(response.json))
    ELSE ResultErr(ReqwestError(None, "error decoding response body"))

\* github_api, given what send() returned; a panic unwinds out of it
github_api(app, sent) ==
    IF sent.tag = "Err" THEN From(sent)
    ELSE LET checked == error_for_status(sent.value)
         IN IF checked.tag = "Err"
            THEN LET e == handle_error_response(app, checked.err)
                 IN IF IsPanic(e) THEN e ELSE AppErr(e)
            ELSE From(json(checked.value))

GithubApp == [config |-> [domain_name |-> "crates.io"]]

\* the responses GitHub gives: a 200 with or without a readable body, or an error status
GithubResponses ==
    {[status |-> 200, json |-> j] : j \in {None, Some("v")}}
        \cup {[status |-> s, json |-> None] : s \in {401, 403, 404, 429, 500}}

\* what RequestBuilder::send can return
GithubSends ==
    {ResultErr(ReqwestError(None, "error sending request"))}
        \cup {Ok("Result", r) : r \in GithubResponses}

----------------------------------------------------------------------------
(* State machine of one request *)

NoTwin == [tag |-> "NoTwin"]

NoAnswer == [fn |-> "none"]

\* a call, its argument and the receiver it was applied to
HistoryEntry(op, arg, self) == [op |-> op, arg |-> arg, self |-> self]

ChainOps(h) ==
    SelectSeq(h, LAMBDA x : x.op \in {"chain_internal_err_cause",
                                      "chain_user_facing_fallback"})

RECURSIVE Count(_, _)
Count(invoked, cb) ==
    IF invoked = <<>> THEN 0
    ELSE (IF Head(invoked) = cb THEN 1 ELSE 0) + Count(Tail(invoked), cb)

\* the requests in flight, each handled by its own thread
Requests == 1..2

\* a request no value has been produced for yet
Idle ==
    [pc |-> "start", origin |-> NoResult, result |-> NoResult, history |-> <<>>,
     calls |-> [cb \in Callbacks |-> 0], built |-> Pending]

Init ==
    /\ pc = "start"
    /\ origin = [by |-> "nothing", value |-> NoResult]
    /\ result = NoResult
    /\ calls = [cb \in Callbacks |-> 0]
    /\ history = <<>>
    /\ built = Pending
    /\ handler = Pending
    /\ log = NoLog
    /\ client = Pending
    /\ twin = NoTwin
    /\ answer = NoAnswer
    /\ requests = [i \in Requests |-> Idle]

\* a collaborator (storage, I/O, lookup) returns a Result or an Option
Raise(raw) ==
    /\ pc = "start"
    /\ pc' = "handling"
    /\ origin' = [by |-> "collaborator", value |-> raw]
    /\ result' = raw
    /\ UNCHANGED <<calls, history, built, handler, log, client, twin, answer, requests>>

Construct(name, builder) ==
    /\ pc = "start"
    /\ pc' = "handling"
    /\ origin' = [by |-> name, value |-> AppErr(builder)]
    /\ result' = AppErr(builder)
    /\ UNCHANGED <<calls, history, built, handler, log, client, twin, answer, requests>>

BadRequest(m) == Construct("bad_request", ErrorBuilder_bad_request(m))

CustomBadRequest(m) == Construct("custom_bad_request", ErrorBuilder_custom_bad_request(m))

ServerError(m) == Construct("server_error", ErrorBuilder_server_error(m))

InternalError(info) == Construct("internal", ErrorBuilder_internal(info))

CargoErrLegacy(m) == Construct("cargo_err_legacy", ErrorBuilder_cargo_err_legacy(m))

CustomCargoErrLegacy(m) ==
    Construct("custom_cargo_err_legacy", ErrorBuilder_custom_cargo_err_legacy(m))

NotFoundRootCause == Construct("NotFound.root_cause", NotFound_root_cause)

ForbiddenRootCause == Construct("Forbidden.root_cause", Forbidden_root_cause)

ReadOnlyModeRootCause == Construct("ReadOnlyMode.root_cause", ReadOnlyMode_root_cause)

InsecurelyGeneratedTokenRevokedRootCause ==
    Construct("InsecurelyGeneratedTokenRevoked.root_cause",
              InsecurelyGeneratedTokenRevoked_root_cause)

TooManyRequestsRootCause(retry_after) ==
    Construct("TooManyRequests.root_cause",
              TooManyRequests_root_cause(TooManyRequests(retry_after)))

\* a GET to the GitHub API made by the endpoint
GithubApi(sent) ==
    LET r == github_api(GithubApp, sent)
    IN /\ pc = "start"
       /\ pc' = IF IsPanic(r) THEN "panicked" ELSE "handling"
       /\ origin' = [by |-> "github_api", value |-> r, sent |-> sent]
       /\ result' = IF IsPanic(r) THEN NoResult ELSE r
       /\ UNCHANGED <<calls, history, built, handler, log, client, twin, answer,
                      requests>>

\* `?` on a Result<T, E> inside a function returning AppResult
QuestionMark ==
    /\ pc = "handling"
    /\ result.kind = "Result"
    /\ result' = From(result)
    /\ history' = Append(history, HistoryEntry("from", "", result))
    /\ UNCHANGED <<pc, origin, calls, built, handler, log, client, twin, answer, requests>>

ChainInternalErrCause(msg) ==
    /\ pc = "handling"
    /\ Len(ChainOps(history)) < MaxOps
    /\ result' = chain_internal_err_cause(result, msg)
    /\ history' = Append(history, HistoryEntry("chain_internal_err_cause", msg, result))
    /\ UNCHANGED <<pc, origin, calls, built, handler, log, client, twin, answer, requests>>

ChainUserFacingFallback(cb) ==
    /\ pc = "handling"
    /\ Len(ChainOps(history)) < MaxOps
    /\ LET r == chain_user_facing_fallback(result, cb)
       IN /\ result' = r.result
          /\ calls' = [c \in Callbacks |-> calls[c] + Count(r.invoked, c)]
    /\ history' = Append(history, HistoryEntry("chain_user_facing_fallback", cb, result))
    /\ UNCHANGED <<pc, origin, built, handler, log, client, twin, answer, requests>>

\* variant: build borrows the builder and leaves it with the endpoint
Build_keeps_builder ==
    /\ pc = "handling"
    /\ IsFault(result)
    /\ built' = build(result.builder)
    /\ pc' = "built"
    /\ UNCHANGED <<origin, result, calls, history, handler, log, client, twin, answer, requests>>

\* ErrorBuilder::build consumes the builder
Build ==
    /\ pc = "handling"
    /\ IsFault(result)
    /\ built' = build(result.builder)
    /\ result' = Moved
    /\ pc' = "built"
    /\ UNCHANGED <<origin, calls, history, handler, log, client, twin, answer, requests>>

Respond ==
    /\ pc = "built"
    /\ handler' = respond(built).handler
    /\ log' = respond(built).log
    /\ pc' = "handled"
    /\ UNCHANGED <<origin, result, calls, history, built, client, twin, answer, requests>>

After ==
    /\ pc = "handled"
    /\ client' = after(handler)
    /\ pc' = "sent"
    /\ UNCHANGED <<origin, result, calls, history, built, handler, log, twin, answer, requests>>

Next ==
    \/ \E raw \in RawResults : Raise(raw)
    \/ \E m \in UserMessages : BadRequest(m)
    \/ \E m \in UserMessages : CustomBadRequest(m)
    \/ \E m \in UserMessages : ServerError(m)
    \/ \E info \in InternalInfos : InternalError(info)
    \/ \E m \in UserMessages : CargoErrLegacy(m)
    \/ \E m \in UserMessages : CustomCargoErrLegacy(m)
    \/ NotFoundRootCause
    \/ ForbiddenRootCause
    \/ ReadOnlyModeRootCause
    \/ InsecurelyGeneratedTokenRevokedRootCause
    \/ \E retry_after \in RetryAfters : TooManyRequestsRootCause(retry_after)
    \/ \E sent \in GithubSends : GithubApi(sent)
    \/ QuestionMark
    \/ \E msg \in InternalMessages : ChainInternalErrCause(msg)
    \/ \E cb \in Callbacks : ChainUserFacingFallback(cb)
    \/ Build
    \/ Respond
    \/ After

Spec == Init /\ [][Next]_vars

\* The endpoint runs to completion: an Err reaching the endpoint boundary is
\* built, the outcome is handed to the middleware stack and `after` runs.
LiveSpec == Spec /\ WF_vars(Build) /\ WF_vars(Respond) /\ WF_vars(After)

----------------------------------------------------------------------------
(* Two requests whose builders differ only in the texts of their chains,  *)
(* taken through the same calls                                            *)

InitialBuilders ==
    {convert_special_errors(e) : e \in RawErrors}
        \cup {ErrorBuilder_internal(info) : info \in InternalMessages}
        \cup {ErrorBuilder_bad_request(m) : m \in UserMessages}
        \cup {ErrorBuilder_server_error(m) : m \in UserMessages}
        \cup {ErrorBuilder_cargo_err_legacy(m) : m \in UserMessages}
        \cup {Forbidden_root_cause, InsecurelyGeneratedTokenRevoked_root_cause}

SameElementKind(x, y) ==
    /\ x.tag = y.tag
    /\ x.tag = "Error" => x.e.type = y.e.type /\ x.e.variant = y.e.variant

DifferOnlyInTexts(b1, b2) ==
    /\ b1.user_facing_response = b2.user_facing_response
    /\ Len(b1.chain) = Len(b2.chain)
    /\ \A i \in 1..Len(b1.chain) : SameElementKind(b1.chain[i], b2.chain[i])

Twin(r, b, h, l, c) == [tag |-> "Twin", result |-> r, built |-> b, handler |-> h,
                        log |-> l, client |-> c]

TwinRaise(b1, b2) ==
    /\ pc = "start"
    /\ DifferOnlyInTexts(b1, b2)
    /\ pc' = "handling"
    /\ origin' = [by |-> "twin", value |-> AppErr(b1)]
    /\ result' = AppErr(b1)
    /\ twin' = Twin(AppErr(b2), Pending, Pending, NoLog, Pending)
    /\ UNCHANGED <<calls, history, built, handler, log, client, answer, requests>>

TwinChainInternalErrCause(m1, m2) ==
    /\ pc = "handling"
    /\ Len(ChainOps(history)) < MaxTwinOps
    /\ result' = chain_internal_err_cause(result, m1)
    /\ twin' = [twin EXCEPT !.result = chain_internal_err_cause(@, m2)]
    /\ history' = Append(history, HistoryEntry("chain_internal_err_cause", m1, result))
    /\ UNCHANGED <<pc, origin, calls, built, handler, log, client, answer, requests>>

TwinChainUserFacingFallback(cb) ==
    /\ pc = "handling"
    /\ Len(ChainOps(history)) < MaxTwinOps
    /\ LET r == chain_user_facing_fallback(result, cb)
       IN /\ result' = r.result
          /\ calls' = [c \in Callbacks |-> calls[c] + Count(r.invoked, c)]
    /\ twin' = [twin EXCEPT !.result = chain_user_facing_fallback(@, cb).result]
    /\ history' = Append(history, HistoryEntry("chain_user_facing_fallback", cb, result))
    /\ UNCHANGED <<pc, origin, built, handler, log, client, answer, requests>>

TwinBuild ==
    /\ pc = "handling"
    /\ built' = build(result.builder)
    /\ twin' = [twin EXCEPT !.built = build(twin.result.builder), !.result = Moved]
    /\ result' = Moved
    /\ pc' = "built"
    /\ UNCHANGED <<origin, calls, history, handler, log, client, answer, requests>>

TwinRespond ==
    /\ pc = "built"
    /\ handler' = respond(built).handler
    /\ log' = respond(built).log
    /\ twin' = [twin EXCEPT !.handler = respond(twin.built).handler,
                            !.log = respond(twin.built).log]
    /\ pc' = "handled"
    /\ UNCHANGED <<origin, result, calls, history, built, client, answer, requests>>

TwinAfter ==
    /\ pc = "handled"
    /\ client' = after(handler)
    /\ twin' = [twin EXCEPT !.client = after(twin.handler)]
    /\ pc' = "sent"
    /\ UNCHANGED <<origin, result, calls, history, built, handler, log, answer, requests>>

TwinNext ==
    \/ \E b1, b2 \in InitialBuilders : TwinRaise(b1, b2)
    \/ \E m1, m2 \in InternalMessages : TwinChainInternalErrCause(m1, m2)
    \/ \E cb \in Callbacks : TwinChainUserFacingFallback(cb)
    \/ TwinBuild
    \/ TwinRespond
    \/ TwinAfter

TwinSpec == Init /\ [][TwinNext]_vars

----------------------------------------------------------------------------
(* The pure functions, applied to inputs drawn from bounded sets *)

Called(fn, args, value) == [fn |-> fn, args |-> args, value |-> value]

Call(fn, args, value) ==
    /\ pc = "start"
    /\ answer = NoAnswer
    /\ answer' = Called(fn, args, value)
    /\ UNCHANGED <<pc, origin, result, calls, history, built, handler, log, client, twin,
                   requests>>

\* builders as the constructors, the conversions and chain_internal_err_cause leave them
RootBuilders ==
    InitialBuilders
        \cup {NotFound_root_cause, ReadOnlyMode_root_cause}
        \cup {Option_chain_user_facing_fallback(OptionNone, cb).result.builder :
                 cb \in Callbacks}

WithContext(builders) ==
    {AppResult_chain_internal_err_cause(AppErr(b), m).builder :
        b \in builders, m \in InternalMessages}

ProbedBuilders ==
    RootBuilders \cup WithContext(RootBuilders) \cup WithContext(WithContext(RootBuilders))

ErrorTypes ==
    {"DieselError", "io::Error", "Forbidden", "NotFound", "ReadOnlyMode",
     "InsecurelyGeneratedTokenRevoked", "GhNotFound"}

RootCauseIs(self, T) ==
    Call("root_cause_is", [self |-> self, T |-> T], root_cause_is(self, T))

NotFoundResponse == Call("NotFound.response", <<>>, NotFound_response)

ForbiddenResponse == Call("Forbidden.response", <<>>, Forbidden_response)

ReadOnlyModeResponse == Call("ReadOnlyMode.response", <<>>, ReadOnlyMode_response)

InsecurelyGeneratedTokenRevokedResponse ==
    Call("InsecurelyGeneratedTokenRevoked.response", <<>>,
         InsecurelyGeneratedTokenRevoked_response)

DetailMessages == UserMessages \cup {"invalid path \"a\\b\""}

CargoLegacyResponse(msg) == Call("CargoLegacy.response", msg, CargoLegacy_response(msg))

BadRequestResponse(msg) == Call("BadRequest.response", msg, BadRequest_response(msg))

ServerErrorResponse(msg) == Call("ServerError.response", msg, ServerError_response(msg))

TooManyRequestsResponse(retry_after) ==
    Call("TooManyRequests.response", retry_after,
         TooManyRequests_response(TooManyRequests(retry_after)))

(* Database pools: src/db.rs *)

\* DieselPool::Pool over an r2d2 pool that can (idle) or cannot hand out a
\* connection, and DieselPool::Test
DieselPool_Pool(name, idle) == [variant |-> "Pool", name |-> name, idle |-> idle]

DieselPool_Test(name) == [variant |-> "Test", name |-> name]

DieselPooledConn(variant, pool) == [variant |-> variant, pool |-> pool]

PoolError == Err_("r2d2::PoolError", "", "timed out waiting for connection")

DieselPool_get(self) ==
    IF self.variant = "Pool"
    THEN IF self.idle THEN Ok("Result", DieselPooledConn("Pool", self.name))
         ELSE ResultErr(PoolError)
    ELSE Ok("Result", DieselPooledConn("Test", self.name))

App(primary_database, read_only_replica_database) ==
    [primary_database |-> primary_database,
     read_only_replica_database |-> read_only_replica_database]

db_conn(app) == DieselPool_get(app.primary_database)

\* variant: the replica pool is ignored
db_read_only_always_primary(app) == DieselPool_get(app.primary_database)

db_read_only(app) ==
    IF is_some(app.read_only_replica_database)
    THEN DieselPool_get(app.read_only_replica_database.value)
    ELSE DieselPool_get(app.primary_database)

Pools(name) ==
    {DieselPool_Pool(name, idle) : idle \in BOOLEAN} \cup {DieselPool_Test(name)}

Apps ==
    {App(primary, replica) :
        primary \in Pools("primary"),
        replica \in {None} \cup {Some(pool) : pool \in Pools("replica")}}

DbConn(app) == Call("db_conn", app, db_conn(app))

DbReadOnly(app) == Call("db_read_only", app, db_read_only(app))

CallNext ==
    \/ \E self \in ProbedBuilders, T \in ErrorTypes : RootCauseIs(self, T)
    \/ NotFoundResponse
    \/ ForbiddenResponse
    \/ ReadOnlyModeResponse
    \/ InsecurelyGeneratedTokenRevokedResponse
    \/ \E msg \in DetailMessages : CargoLegacyResponse(msg)
    \/ \E msg \in DetailMessages : BadRequestResponse(msg)
    \/ \E msg \in DetailMessages : ServerErrorResponse(msg)
    \/ \E retry_after \in RetryAfters : TooManyRequestsResponse(retry_after)
    \/ \E app \in Apps : DbConn(app)
    \/ \E app \in Apps : DbReadOnly(app)

CallSpec == Init /\ [][CallNext]_vars

----------------------------------------------------------------------------
(* Concurrent requests: every request unwinds its own value. A Box<ErrorBuilder>
   is passed by value through every call, so a call reads and writes nothing
   but its receiver and is one step of the request's thread. *)

ConcRawResults ==
    {ResultErr(e) : e \in {DieselNotFound,
                           DieselDatabaseError(
                               "cannot execute INSERT in a read-only transaction"),
                           IoError("permission denied")}}
        \cup {OptionNone}

ConcMessages == {"inner", "outer"}

ConcCallbacks == {"Forbidden.response", "server_error"}

\* variant: the builders of all requests live in one shared slot
Owned_shared(reqs, i, r) ==
    [j \in DOMAIN reqs |->
        IF j = i THEN r
        ELSE IF IsFault(reqs[j].result) /\ IsFault(r.result)
             THEN [reqs[j] EXCEPT !.result = r.result]
             ELSE reqs[j]]

\* the value is owned by its request: a call consumes it and returns the new one
Owned(reqs, i, r) == [reqs EXCEPT ![i] = r]

ConcRaise(i, raw) ==
    /\ requests[i].pc = "start"
    /\ requests' = Owned(requests, i,
                         [requests[i] EXCEPT !.pc = "handling",
                                             !.origin = raw,
                                             !.result = raw])
    /\ UNCHANGED <<pc, origin, result, calls, history, built, handler, log, client, twin,
                   answer>>

ConcChainInternalErrCause(i, msg) ==
    /\ requests[i].pc = "handling"
    /\ Len(requests[i].history) < MaxConcOps
    /\ requests' = Owned(requests, i,
                         [requests[i] EXCEPT
                             !.result = chain_internal_err_cause(@, msg),
                             !.history = Append(@, HistoryEntry("chain_internal_err_cause",
                                                                msg, requests[i].result))])
    /\ UNCHANGED <<pc, origin, result, calls, history, built, handler, log, client, twin,
                   answer>>

ConcChainUserFacingFallback(i, cb) ==
    /\ requests[i].pc = "handling"
    /\ Len(requests[i].history) < MaxConcOps
    /\ LET r == chain_user_facing_fallback(requests[i].result, cb)
       IN requests' = Owned(requests, i,
                            [requests[i] EXCEPT
                                !.result = r.result,
                                !.calls = [c \in Callbacks |-> @[c] + Count(r.invoked, c)],
                                !.history = Append(@, HistoryEntry(
                                                        "chain_user_facing_fallback",
                                                        cb, requests[i].result))])
    /\ UNCHANGED <<pc, origin, result, calls, history, built, handler, log, client, twin,
                   answer>>

ConcBuild(i) ==
    /\ requests[i].pc = "handling"
    /\ IsFault(requests[i].result)
    /\ requests' = Owned(requests, i,
                         [requests[i] EXCEPT !.pc = "built",
                                             !.built = build(requests[i].result.builder),
                                             !.result = Moved])
    /\ UNCHANGED <<pc, origin, result, calls, history, built, handler, log, client, twin,
                   answer>>

ConcNext ==
    \/ \E i \in Requests, raw \in ConcRawResults : ConcRaise(i, raw)
    \/ \E i \in Requests, msg \in ConcMessages : ConcChainInternalErrCause(i, msg)
    \/ \E i \in Requests, cb \in ConcCallbacks : ConcChainUserFacingFallback(i, cb)
    \/ \E i \in Requests : ConcBuild(i)

ConcSpec == Init /\ [][ConcNext]_vars

----------------------------------------------------------------------------
(* Properties *)

Last(h) == h[Len(h)]

IsPropose(h) == h.op = "chain_user_facing_fallback"

IsAppend(h) == h.op = "chain_internal_err_cause"

Proposes(h) == SelectSeq(h, IsPropose)

Appends(h) == SelectSeq(h, IsAppend)

Committed(r) == IsFault(r) /\ is_some(r.builder.user_facing_response)

Uncommitted(r) == IsFault(r) /\ is_none(r.builder.user_facing_response)

\* the builder was finalized right after proposing A and then B to a Fault
ProposedTwiceThenBuilt ==
    /\ pc = "built"
    /\ Len(history) >= 2
    /\ IsPropose(history[Len(history) - 1])
    /\ IsPropose(Last(history))
    /\ IsFault(history[Len(history) - 1].self)

\* C1 as stated: for any Fault, propose_response(A), propose_response(B) and
\* finalize yield a Responded outcome carrying A's response.
C1_FirstWinsAnyFault ==
    ProposedTwiceThenBuilt =>
        /\ built.tag = "Response"
        /\ built.response = callback(history[Len(history) - 1].arg)

\* C1 amended: for a Fault with no committed response, propose_response(A),
\* propose_response(B) and finalize yield Responded with A's response, and A's
\* callback is the only one that ran; for a Fault that already has a committed
\* response r they yield Responded with r.
C1_FirstWins ==
    ProposedTwiceThenBuilt =>
        LET a == history[Len(history) - 1]
        IN /\ built.tag = "Response"
           /\ IF Uncommitted(a.self)
              THEN /\ built.response = callback(a.arg)
                   /\ calls = [c \in Callbacks |-> IF c = a.arg THEN 1 ELSE 0]
              ELSE built.response = a.self.builder.user_facing_response.value

C1_Witness ==
    /\ ProposedTwiceThenBuilt
    /\ Uncommitted(history[Len(history) - 1].self)
    /\ history[Len(history) - 1].arg # Last(history).arg
    /\ built.response = callback(history[Len(history) - 1].arg)
    /\ built.response # callback(Last(history).arg)

\* C2: once a Fault has a committed response r, every later call leaves r
\* committed, and finalization returns r.
C2_CommitOnce ==
    [][Committed(result) =>
          LET r == result.builder.user_facing_response
          IN /\ pc' = "handling" => Committed(result')
                                     /\ result'.builder.user_facing_response = r
             /\ pc' = "built" => built'.tag = "Response"
                                  /\ built'.response = r.value]_vars

\* a response committed before an append and a different proposal is still there
C2_Witness ==
    /\ pc = "built"
    /\ Len(history) >= 2
    /\ IsAppend(history[Len(history) - 1])
    /\ IsPropose(Last(history))
    /\ Committed(history[Len(history) - 1].self)
    /\ built.tag = "Response"
    /\ built.response = history[Len(history) - 1].self.builder.user_facing_response.value
    /\ built.response # callback(Last(history).arg)

\* C3: propose_response on a Fault whose response is already committed does
\* not invoke the callback: no invocation count changes.
C3_Lazy ==
    [][(/\ Committed(result)
        /\ Len(history') = Len(history) + 1
        /\ IsPropose(Last(history')))
           => calls' = calls]_vars

C3_Witness ==
    /\ history # <<>>
    /\ IsPropose(Last(history))
    /\ Committed(Last(history).self)
    /\ calls[Last(history).arg] = 0

\* the chain rendering as the documentation states it: the last entry first,
\* then " caused by ", then the rendering of the entries before it
RECURSIVE RenderedNewestFirst(_)
RenderedNewestFirst(chain) ==
    IF chain = <<>> THEN ""
    ELSE IF Len(chain) = 1 THEN element_text(chain[1])
    ELSE element_text(Last(chain)) \o " caused by "
             \o RenderedNewestFirst(SubSeq(chain, 1, Len(chain) - 1))

AppendedTexts(h) == [i \in 1..Len(Appends(h)) |-> Appends(h)[i].arg]

\* C4: the rendered chain is the entries' texts, last appended first and root
\* cause last, joined by " caused by "; appending "inner", "middle", "outer" to
\* an absent value renders "outer caused by middle caused by inner".
C4_ChainRendering ==
    IsFault(result) =>
        /\ cause_chain(result.builder) = RenderedNewestFirst(result.builder.chain)
        /\ (/\ origin.value = OptionNone
            /\ AppendedTexts(history) = <<"inner", "middle", "outer">>)
               => cause_chain(result.builder) = "outer caused by middle caused by inner"

C4_Witness ==
    /\ IsFault(result)
    /\ origin.value = OptionNone
    /\ AppendedTexts(history) = <<"inner", "middle", "outer">>
    /\ Len(result.builder.chain) = 3

\* C5: finalizing a Fault with committed response r returns Responded{r,
\* cause_text}, cause_text being None exactly when the chain is empty and
\* otherwise the rendered chain.
C5_FinalizeCommitted ==
    [][(Committed(result) /\ pc' = "built") =>
          /\ built'.tag = "Response"
          /\ built'.response = result.builder.user_facing_response.value
          /\ (built'.cause = None) <=> (result.builder.chain = <<>>)
          /\ result.builder.chain # <<>> =>
                 built'.cause = Some(RenderedNewestFirst(result.builder.chain))]_vars

C5_Witness ==
    /\ pc = "built"
    /\ origin.by = "cargo_err_legacy"
    /\ history = <<>>
    /\ built.tag = "Response"
    /\ built.cause = None

\* C6: a Fault obtained from a diesel NotFound on which propose_response is
\* never called finalizes to Responded{NotFound (404), cause_text: None}.
C6_NotFoundConvenience ==
    (/\ pc = "built"
     /\ origin.value = ResultErr(DieselNotFound)
     /\ Proposes(history) = <<>>)
        => built = [tag |-> "Response",
                    response |-> [status |-> 404, headers |-> {},
                                  body |-> "{\"errors\":[{\"detail\":\"Not Found\"}]}"],
                    cause |-> None]

C6_Witness ==
    /\ pc = "built"
    /\ origin.value = ResultErr(DieselNotFound)
    /\ Proposes(history) = <<>>
    /\ Appends(history) # <<>>
    /\ built.tag = "Response"
    /\ built.response.status = 404

RootIsRecordAbsent(builder) ==
    /\ builder.chain # <<>>
    /\ builder.chain[1] = Error(DieselNotFound)

\* C7: a Fault with no committed response whose root is not a diesel NotFound
\* finalizes to Unhandled whose display text is the rendered chain; an io
\* failure with context "outer" gives "outer caused by <io failure message>".
C7_Unhandled ==
    /\ [][(/\ Uncommitted(result)
           /\ ~RootIsRecordAbsent(result.builder)
           /\ pc' = "built")
              => /\ built'.tag = "Error"
                 /\ to_string(built'.error) = RenderedNewestFirst(result.builder.chain)]_vars
    /\ [](\A m \in IoMessages :
             (/\ pc = "built"
              /\ origin.value = ResultErr(IoError(m))
              /\ ChainOps(history) = Appends(history)
              /\ AppendedTexts(history) = <<"outer">>)
                 => built.tag = "Error" /\ to_string(built.error) = "outer caused by " \o m)

C7_Witness ==
    /\ pc = "built"
    /\ origin.value = ResultErr(IoError("permission denied"))
    /\ Len(history) = 2
    /\ history[1].op = "from"
    /\ AppendedTexts(history) = <<"outer">>
    /\ built.tag = "Error"
    /\ built.error.message = "outer caused by permission denied"

ReadOnlyRaised ==
    /\ origin.by = "collaborator"
    /\ origin.value.kind = "Result"
    /\ origin.value.tag = "Err"
    /\ origin.value.err.type = "DieselError"
    /\ origin.value.err.variant = "DatabaseError"
    /\ ends_with(origin.value.err.message, "read-only transaction")

\* C8: classifying a storage failure whose message ends with "read-only
\* transaction" commits the response at classification time, and finalizing
\* with no further call returns Responded with status 503 and the maintenance
\* text.
C8_ReadOnlyClassification ==
    (ReadOnlyRaised /\ history # <<>> /\ ChainOps(history) = <<>>) =>
        /\ pc = "handling" => Committed(result)
        /\ pc = "built" =>
               /\ built.tag = "Response"
               /\ built.response.status = 503
               /\ built.response.body =
                      "{\"errors\":[{\"detail\":\"Crates.io is currently in read-only mode for maintenance. Please try again later.\"}]}"

C8_Witness ==
    /\ pc = "built"
    /\ origin.value = ResultErr(DieselDatabaseError(
                                    "cannot execute INSERT in a read-only transaction"))
    /\ ChainOps(history) = <<>>
    /\ built.tag = "Response"
    /\ built.response.status = 503

\* C9: the response written to the client is the same for two Faults that
\* differ only in the texts of their cause chains; the texts reach only the
\* cause or the error text, which are logged.
C9_NoCauseTextToClient ==
    /\ pc \in {"handled", "sent"} =>
           /\ handler.tag = twin.handler.tag
           /\ handler.tag = "Ok" => handler = twin.handler
    /\ pc = "sent" => client = twin.client

C9_Witness ==
    /\ pc = "sent"
    /\ client = twin.client
    /\ handler.tag = "Err"
    /\ log.error # twin.log.error

GenericInternalServerError ==
    [status |-> 500, headers |-> {<<"Content-Length", 21>>},
     body |-> "Internal Server Error"]

starts_with(s, prefix) ==
    Len(s) >= Len(prefix) /\ SubSeq(s, 1, Len(prefix)) = prefix

HasSomeDetail(r) ==
    /\ starts_with(r.body, "{\"errors\":[{\"detail\":\"")
    /\ ends_with(r.body, "\"}]}")

HasDetail(r, detail) == r.body = "{\"errors\":[{\"detail\":\"" \o detail \o "\"}]}"

\* the table of the response catalog
IsCataloged(r) ==
    \/ r.status \in {400, 500, 200} /\ HasSomeDetail(r)
    \/ r.status = 404 /\ HasDetail(r, "Not Found")
    \/ r.status = 403 /\ HasDetail(r, "must be logged in to perform that action")
    \/ r.status = 503 /\ HasSomeDetail(r)
    \/ r.status = 429 /\ HasSomeDetail(r)
    \/ r.status = 401 /\ HasSomeDetail(r)

\* C10: for every failure the client eventually receives a cataloged response
\* or the fixed generic 500 response; an Err leaving the endpoint is always
\* replaced by the fixed 500 response and no Err remains after the middleware.
C10_WellFormedResponse ==
    /\ [](pc = "sent" =>
              /\ client.tag = "Ok"
              /\ IsCataloged(client.response)
                     \/ client.response = GenericInternalServerError)
    /\ [][(pc = "handled" /\ handler.tag = "Err" /\ pc' = "sent") =>
              client' = [tag |-> "Ok", response |-> GenericInternalServerError]]_vars
    /\ (IsFault(result) ~> pc = "sent")

C10_Witness ==
    /\ pc = "sent"
    /\ handler.tag = "Err"
    /\ client.tag = "Ok"
    /\ client.response.status = 500
    /\ client.response.body = "Internal Server Error"

IsProposeStep == Len(history') = Len(history) + 1 /\ IsPropose(Last(history'))

IsAppendStep == Len(history') = Len(history) + 1 /\ IsAppend(Last(history'))

\* C11: propose_response on a Fault with no committed response invokes the
\* callback exactly once and commits its result; finalize then returns
\* Responded with that response and the rendered chain as cause; an io
\* PermissionDenied failure with fallback "outer" gives detail "outer" and
\* cause "permission denied".
C11_ProposeCommits ==
    /\ [][(Uncommitted(result) /\ IsProposeStep) =>
              LET cb == Last(history').arg
              IN /\ calls' = [calls EXCEPT ![cb] = @ + 1]
                 /\ IsFault(result')
                 /\ result'.builder.user_facing_response = Some(callback(cb))]_vars
    /\ []((/\ pc = "built"
           /\ history # <<>>
           /\ IsPropose(Last(history))
           /\ Uncommitted(Last(history).self))
              => /\ built.tag = "Response"
                 /\ built.response = callback(Last(history).arg)
                 /\ Last(history).self.builder.chain # <<>> =>
                        built.cause =
                            Some(RenderedNewestFirst(Last(history).self.builder.chain)))
    /\ []((/\ pc = "built"
           /\ origin.value = ResultErr(IoError("permission denied"))
           /\ Len(ChainOps(history)) = 1
           /\ IsPropose(Last(history))
           /\ Last(history).arg = "cargo_err_legacy")
              => built = [tag |-> "Response",
                          response |-> [status |-> 200, headers |-> {},
                                        body |-> "{\"errors\":[{\"detail\":\"outer\"}]}"],
                          cause |-> Some("permission denied")])

C11_Witness ==
    /\ pc = "built"
    /\ origin.value = ResultErr(IoError("permission denied"))
    /\ Len(history) = 1
    /\ IsPropose(Last(history))
    /\ Last(history).arg = "cargo_err_legacy"
    /\ calls["cargo_err_legacy"] = 1
    /\ built.tag = "Response"
    /\ built.cause = Some("permission denied")

ContextOf(h) == [i \in 1..Len(AppendedTexts(h)) |-> Internal(AppendedTexts(h)[i])]

\* C12: for a Fault whose root is a diesel NotFound, a proposed response is
\* the one returned, with the chain as cause, and NotFound (404) is returned
\* only if no response was committed.
C12_ProposedBeatsNotFound ==
    (pc = "built" /\ origin.value = ResultErr(DieselNotFound)) =>
        /\ built.tag = "Response"
        /\ IF Proposes(history) = <<>>
           THEN built.response.status = 404 /\ built.cause = None
           ELSE /\ built.response = callback(Proposes(history)[1].arg)
                /\ built.response.status # 404
                /\ built.cause = Some(RenderedNewestFirst(
                                          <<Error(DieselNotFound)>> \o ContextOf(history)))
        /\ (/\ AppendedTexts(history) = <<"outer">>
            /\ Len(Proposes(history)) = 1
            /\ Proposes(history)[1].arg = "server_error")
               => built = [tag |-> "Response",
                           response |-> [status |-> 500, headers |-> {},
                                         body |-> "{\"errors\":[{\"detail\":\"Internal Server Error\"}]}"],
                           cause |-> Some("outer caused by NotFound")]

C12_Witness ==
    /\ pc = "built"
    /\ origin.value = ResultErr(DieselNotFound)
    /\ AppendedTexts(history) = <<"outer">>
    /\ Len(Proposes(history)) = 1
    /\ Proposes(history)[1].arg = "server_error"
    /\ built.response.status = 500

C14_RootCauseIs ==
    answer.fn = "root_cause_is" =>
        LET self == answer.args.self
            T == answer.args.T
        IN /\ answer.value
                  <=> /\ self.chain # <<>>
                      /\ Head(self.chain).tag = "Error"
                      /\ Head(self.chain).e.type = T
           /\ self.chain = <<>> => ~answer.value
           /\ (self.chain # <<>> /\ Head(self.chain).tag = "Internal")
                  => ~answer.value

C14_Witness ==
    /\ answer.fn = "root_cause_is"
    /\ answer.value
    /\ answer.args.T = "DieselError"
    /\ Len(answer.args.self.chain) = 3

IsReadOnlySignature(e) ==
    /\ e.type = "DieselError"
    /\ e.variant = "DatabaseError"
    /\ ends_with(e.message, "read-only transaction")

ConvertsRawErr ==
    /\ result.kind = "Result"
    /\ result.tag = "Err"
    /\ Len(history') = Len(history) + 1

\* C15: converting any failure that is not the read-only storage signature
\* produces a builder whose chain is exactly [Error(failure)] and whose
\* user-facing response is None.
C15_DefaultClassification ==
    [][(ConvertsRawErr /\ ~IsReadOnlySignature(result.err)) =>
           LET step == Last(history')
           IN CASE step.op = "from" ->
                       result' = AppErr(ErrorBuilder(<<Error(result.err)>>, None))
                [] IsAppend(step) ->
                       result' = AppErr(ErrorBuilder(<<Error(result.err),
                                                       Internal(step.arg)>>, None))
                [] IsPropose(step) ->
                       /\ IsFault(result')
                       /\ result'.builder.chain = <<Error(result.err)>>
                       /\ result'.builder.user_facing_response
                              = Some(callback(step.arg))
                [] OTHER -> TRUE]_vars

C15_Witness ==
    /\ pc = "handling"
    /\ origin.value = ResultErr(IoError("socket closed in a read-only transaction"))
    /\ Len(history) = 1
    /\ history[1].op = "from"
    /\ result = AppErr(ErrorBuilder(
                    <<Error(IoError("socket closed in a read-only transaction"))>>,
                    None))

\* C16 as stated: when the read-only storage failure is recognised, the root
\* of the chain is that storage failure: root_cause_is(DieselError) holds and
\* the rendered chain ends with the failure's own message.
C16_RootIsStorageFailure ==
    (ReadOnlyRaised /\ IsFault(result)) =>
        /\ root_cause_is(result.builder, "DieselError")
        /\ ends_with(cause_chain(result.builder), to_string(origin.value.err))

\* C16: when the read-only storage failure is recognised, the root of the
\* chain is ReadOnlyMode, not the storage failure: root_cause_is(ReadOnlyMode)
\* holds and the rendered chain ends with ReadOnlyMode's message.
C16_RootIsReadOnlyMode ==
    (ReadOnlyRaised /\ IsFault(result)) =>
        /\ Head(result.builder.chain) = Error(ReadOnlyMode)
        /\ root_cause_is(result.builder, "ReadOnlyMode")
        /\ ~root_cause_is(result.builder, "DieselError")
        /\ ends_with(cause_chain(result.builder), "Tried to write in read only mode")
        /\ \A i \in 1..Len(result.builder.chain) :
               result.builder.chain[i] # Error(origin.value.err)

C16_Witness ==
    /\ pc = "handling"
    /\ ReadOnlyRaised
    /\ IsFault(result)
    /\ Len(result.builder.chain) = 2
    /\ cause_chain(result.builder) = "outer caused by Tried to write in read only mode"

\* the text of a built response that goes to the log
LogText ==
    IF built.tag = "Response"
    THEN IF is_some(built.cause) THEN built.cause.value ELSE ""
    ELSE built.error.message

AllContextLogged ==
    \A i \in 1..Len(AppendedTexts(history)) :
        contains(LogText, AppendedTexts(history)[i])

NotFoundConvenience ==
    origin.value = ResultErr(DieselNotFound) /\ Proposes(history) = <<>>

\* C17 as stated: for every builder, whatever its root cause and whether or
\* not a response was committed, every text added by chain_internal_err_cause
\* is present in the log text of the built response.
C17_ContextNeverSuppressed ==
    pc = "built" => AllContextLogged

\* C17: every text added by chain_internal_err_cause is present in the log
\* text of the built response, except when the root is a diesel NotFound and
\* no response was committed: build then returns NotFound with no cause.
C17_ContextLoggedUnlessNotFound ==
    pc = "built" =>
        IF NotFoundConvenience
        THEN built = Response(NotFound_response, None)
        ELSE AllContextLogged

C17_Witness ==
    /\ pc = "built"
    /\ ReadOnlyRaised
    /\ AppendedTexts(history) = <<"inner", "outer">>
    /\ built.tag = "Response"
    /\ built.cause =
           Some("outer caused by inner caused by Tried to write in read only mode")

\* C18: a builder obtained from a read-only storage failure or from a diesel
\* NotFound builds a Response, never an Error, after every sequence of
\* chain_internal_err_cause and chain_user_facing_fallback calls.
C18_RecognizedAlwaysResponded ==
    (pc = "built" /\ (ReadOnlyRaised \/ origin.value = ResultErr(DieselNotFound)))
        => built.tag = "Response"

C18_Witness ==
    /\ pc = "built"
    /\ origin.value = ResultErr(DieselNotFound)
    /\ Len(AppendedTexts(history)) = MaxOps
    /\ built.tag = "Response"
    /\ built.response.status = 404

\* the JSON text of each message drawn for the catalog
DetailJson(msg) ==
    IF msg = "invalid path \"a\\b\"" THEN "invalid path \\\"a\\\\b\\\"" ELSE msg

OneErrorElement(r) == HasSomeDetail(r) /\ ~contains(r.body, "},{")

\* C19: each catalog kind renders the status and body of the catalog table:
\* BadRequest(msg) 400, ServerError(msg) 500, CargoLegacy(msg) 200, NotFound
\* 404 "Not Found", Forbidden 403 "must be logged in to perform that action",
\* ReadOnlyMode 503, TooManyRequests 429, InsecurelyGeneratedTokenRevoked 401,
\* and the body is {"errors":[{"detail": <text>}]} with one error element.
C19_CatalogTable ==
    LET r == answer.value
    IN CASE answer.fn = "BadRequest.response" ->
                r.status = 400 /\ r.headers = {} /\ HasDetail(r, DetailJson(answer.args))
         [] answer.fn = "ServerError.response" ->
                r.status = 500 /\ r.headers = {} /\ HasDetail(r, DetailJson(answer.args))
         [] answer.fn = "CargoLegacy.response" ->
                r.status = 200 /\ r.headers = {} /\ HasDetail(r, DetailJson(answer.args))
         [] answer.fn = "NotFound.response" ->
                r = [status |-> 404, headers |-> {},
                     body |-> "{\"errors\":[{\"detail\":\"Not Found\"}]}"]
         [] answer.fn = "Forbidden.response" ->
                r = [status |-> 403, headers |-> {},
                     body |-> "{\"errors\":[{\"detail\":\"must be logged in to perform that action\"}]}"]
         [] answer.fn = "ReadOnlyMode.response" ->
                r = [status |-> 503, headers |-> {},
                     body |-> "{\"errors\":[{\"detail\":\"Crates.io is currently in read-only mode for maintenance. Please try again later.\"}]}"]
         [] answer.fn = "TooManyRequests.response" ->
                r.status = 429 /\ OneErrorElement(r)
         [] answer.fn = "InsecurelyGeneratedTokenRevoked.response" ->
                r.status = 401 /\ r.headers = {} /\ OneErrorElement(r)
         [] OTHER -> TRUE

C19_Witness ==
    /\ answer.fn = "CargoLegacy.response"
    /\ answer.args = "invalid path \"a\\b\""
    /\ answer.value.status = 200
    /\ answer.value.body = "{\"errors\":[{\"detail\":\"invalid path \\\"a\\\\b\\\"\"}]}"

RetryAfterValues(r) == {h[2] : h \in {x \in r.headers : x[1] = "Retry-After"}}

\* C20: for every retry_after timestamp, the TooManyRequests response has
\* status 429 and one Retry-After header whose value is the formatted date
\* that is embedded in the detail text.
C20_RetryAfterMatchesDetail ==
    answer.fn = "TooManyRequests.response" =>
        LET r == answer.value
        IN /\ r.status = 429
           /\ Cardinality(RetryAfterValues(r)) = 1
           /\ \A v \in RetryAfterValues(r) :
                  /\ HasDetail(r, "You have published too many crates in a short period of time. Please try again after "
                                      \o v \o " or email help@crates.io to have your limit increased.")
                  /\ ends_with(v, " GMT")
                  /\ answer.args = NaiveDateTime(2019, 10, 18, 15, 16, 17)
                         => v = "Fri, 18 Oct 2019 15:16:17 GMT"

C20_Witness ==
    /\ answer.fn = "TooManyRequests.response"
    /\ answer.args = NaiveDateTime(2020, 2, 29, 0, 0, 0)
    /\ <<"Retry-After", "Sat, 29 Feb 2020 00:00:00 GMT">> \in answer.value.headers

\* the builder that convert_special_errors makes of a raw Err
Classified(r) == AppErr(convert_special_errors(r.err))

\* C22: the From conversion of a raw failure, and chain_internal_err_cause /
\* chain_user_facing_fallback applied directly to a raw Err, each give the
\* builder of convert_special_errors(failure) followed by that operation, so
\* the read-only conversion applies on all three paths.
C22_SingleEntryPoint ==
    /\ [][ConvertsRawErr =>
              LET step == Last(history')
                  f == Classified(result)
              IN CASE step.op = "from" -> result' = f
                   [] IsAppend(step) ->
                          result' = AppResult_chain_internal_err_cause(f, step.arg)
                   [] IsPropose(step) ->
                          LET r == AppResult_chain_user_facing_fallback(f, step.arg)
                          IN /\ result' = r.result
                             /\ calls' = [c \in Callbacks |->
                                              calls[c] + Count(r.invoked, c)]
                   [] OTHER -> TRUE]_vars
    /\ []((ReadOnlyRaised /\ pc = "handling" /\ Len(history) = 1)
              => /\ IsFault(result)
                 /\ result.builder.user_facing_response = Some(ReadOnlyMode_response)
                 /\ Head(result.builder.chain) = Error(ReadOnlyMode))

C22_Witness ==
    /\ pc = "handling"
    /\ ReadOnlyRaised
    /\ Len(history) = 1
    /\ IsAppend(history[1])
    /\ history[1].arg = "middle"
    /\ result = AppErr(ErrorBuilder(<<Error(ReadOnlyMode), Internal("middle")>>,
                                    Some(ReadOnlyMode_response)))

\* C24: build consumes the builder: once a built response exists it never
\* changes, no further call is recorded, no callback runs and the builder is
\* gone, so exactly one built response is produced.
C24_FinalizeOnce ==
    /\ [][built.tag # "Pending" =>
              /\ built' = built
              /\ history' = history
              /\ calls' = calls
              /\ result' = Moved]_vars
    /\ [](built.tag # "Pending" <=> pc \in {"built", "handled", "sent"})
    /\ [](built.tag # "Pending" => result = Moved)

C24_Witness ==
    /\ pc = "sent"
    /\ built.tag = "Error"
    /\ result = Moved
    /\ Len(ChainOps(history)) = MaxOps

IsPrefix(s, t) == Len(s) <= Len(t) /\ SubSeq(t, 1, Len(s)) = s

\* C27: chain_internal_err_cause adds exactly one Internal(text) entry at the
\* end of the chain, and no call removes or reorders the entries already
\* there.
C27_ChainAppendOnly ==
    [][/\ (IsFault(result) /\ IsAppendStep) =>
              /\ IsFault(result')
              /\ result'.builder.chain
                     = Append(result.builder.chain, Internal(Last(history').arg))
              /\ Len(result'.builder.chain) = Len(result.builder.chain) + 1
       /\ (IsFault(result) /\ IsFault(result')) =>
              IsPrefix(result.builder.chain, result'.builder.chain)]_vars

C27_Witness ==
    /\ pc = "handling"
    /\ IsFault(result)
    /\ result.builder.chain
           = <<Error(DieselNotFound), Internal("inner"), Internal("outer")>>

\* C28: in every builder reachable through the constructors, the conversions
\* and the chain calls, every chain entry at position 2 or later is Internal.
C28_OnlyRootIsError ==
    IsFault(result) =>
        \A i \in 2..Len(result.builder.chain) :
            result.builder.chain[i].tag = "Internal"

C28_Witness ==
    /\ IsFault(result)
    /\ Len(result.builder.chain) = MaxOps + 1
    /\ result.builder.chain[1].tag = "Error"
    /\ result.builder.chain[MaxOps + 1].tag = "Internal"

\* C29: only a diesel DatabaseError whose message ends with "read-only
\* transaction" is converted to ReadOnlyMode; a database error with the phrase
\* elsewhere in its message and another error whose text ends with the phrase
\* both keep the default conversion with no response.
C29_ReadOnlyNeedsBoth ==
    (/\ pc = "handling"
     /\ origin.by = "collaborator"
     /\ origin.value.kind = "Result"
     /\ origin.value.tag = "Err"
     /\ history # <<>>
     /\ Proposes(history) = <<>>)
        => LET e == origin.value.err
           IN /\ IsFault(result)
              /\ Committed(result)
                     <=> /\ e.type = "DieselError"
                         /\ e.variant = "DatabaseError"
                         /\ ends_with(e.message, "read-only transaction")
              /\ e \in {DieselDatabaseError("read-only transaction was rolled back"),
                        IoError("socket closed in a read-only transaction")}
                     => /\ Uncommitted(result)
                        /\ Head(result.builder.chain) = Error(e)
              /\ e = DieselDatabaseError("cannot execute INSERT in a read-only transaction")
                     => /\ result.builder.user_facing_response.value.status = 503
                        /\ Head(result.builder.chain) = Error(ReadOnlyMode)

C29_Witness ==
    /\ pc = "handling"
    /\ origin.value
           = ResultErr(DieselDatabaseError("read-only transaction was rolled back"))
    /\ Len(history) = 1
    /\ history[1].op = "from"
    /\ result = AppErr(ErrorBuilder(
                    <<Error(DieselDatabaseError("read-only transaction was rolled back"))>>,
                    None))

\* C25: no operation panics: the responses held by a builder and the built
\* response are never a panic; in particular the unwrap inside build is
\* reached only when the response is Some, and the Retry-After header value
\* of TooManyRequests is always accepted.
C25_NoPanic ==
    /\ (IsFault(result) /\ is_some(result.builder.user_facing_response))
           => ~IsPanic(result.builder.user_facing_response.value)
    /\ pc = "built" =>
           /\ ~IsPanic(built)
           /\ built.tag \in {"Response", "Error"}
           /\ built.tag = "Response" => ~IsPanic(built.response)
           /\ built.tag = "Error" => ~IsPanic(built.error)

C25_Witness ==
    /\ pc = "built"
    /\ origin.by = "TooManyRequests.root_cause"
    /\ Len(ChainOps(history)) = MaxOps
    /\ built.tag = "Response"
    /\ built.response.status = 429
    /\ <<"Retry-After", "Wed, 31 Dec 1969 23:59:59 GMT">> \in built.response.headers

NeverEmpty ==
    IsFault(result) =>
        \/ result.builder.chain # <<>>
        \/ is_some(result.builder.user_facing_response)

CanGet(pool) == pool.variant = "Test" \/ pool.idle

\* C26: db_read_only takes its connection from the read-only replica pool
\* when one is configured, and from the primary pool exactly when there is no
\* replica pool; db_conn always uses the primary pool.
C26_ReadOnlyPool ==
    /\ answer.fn = "db_read_only" =>
           LET app == answer.args
               replica == app.read_only_replica_database
               chosen == IF is_some(replica) THEN replica.value
                         ELSE app.primary_database
           IN /\ answer.value.tag = "Ok" <=> CanGet(chosen)
              /\ answer.value.tag = "Ok" =>
                     /\ answer.value.value.pool = chosen.name
                     /\ answer.value.value.pool = "primary" <=> is_none(replica)
              /\ answer.value.tag = "Err" => answer.value.err = PoolError
    /\ answer.fn = "db_conn" =>
           /\ answer.value.tag = "Ok" <=> CanGet(answer.args.primary_database)
           /\ answer.value.tag = "Ok" => answer.value.value.pool = "primary"

C26_Witness ==
    /\ answer.fn = "db_read_only"
    /\ answer.args = App(DieselPool_Pool("primary", FALSE),
                         Some(DieselPool_Pool("replica", TRUE)))
    /\ answer.value = Ok("Result", DieselPooledConn("Pool", "replica"))

RECURSIVE Replay(_, _)
\* the calls of one history applied in order to the value they started from
Replay(r, h) ==
    IF h = <<>> THEN r
    ELSE Replay(IF IsAppend(Head(h)) THEN chain_internal_err_cause(r, Head(h).arg)
                ELSE chain_user_facing_fallback(r, Head(h).arg).result,
                Tail(h))

UserMessageConstructors ==
    {"bad_request", "custom_bad_request", "server_error", "cargo_err_legacy",
     "custom_cargo_err_legacy"}

\* C31: a Fault made by a user-message constructor starts with an empty chain
\* and a committed response, so its chain holds the appended context only and
\* the user message is never rendered: cargo_err_legacy("inner") followed by
\* chain_internal_err_cause("outer") renders exactly "outer".
C31_UserMessageNotInChain ==
    (origin.by \in UserMessageConstructors /\ IsFault(result)) =>
        /\ origin.value.builder.chain = <<>>
        /\ is_some(origin.value.builder.user_facing_response)
        /\ result.builder.chain = ContextOf(history)
        /\ result.builder.user_facing_response
               = origin.value.builder.user_facing_response
        /\ cause_chain(result.builder) = join(rev(AppendedTexts(history)), " caused by ")
        /\ (/\ origin.by = "cargo_err_legacy"
            /\ HasDetail(unwrap(origin.value.builder.user_facing_response), "inner")
            /\ AppendedTexts(history) = <<"outer">>)
               => cause_chain(result.builder) = "outer"

C31_Witness ==
    /\ origin.by = "cargo_err_legacy"
    /\ IsFault(result)
    /\ HasDetail(unwrap(result.builder.user_facing_response), "inner")
    /\ AppendedTexts(history) = <<"outer">>
    /\ cause_chain(result.builder) = "outer"

\* the catalog kind a root_cause constructor is called on
RootCauseKinds ==
    [c \in {"Forbidden.root_cause", "NotFound.root_cause", "ReadOnlyMode.root_cause",
            "TooManyRequests.root_cause",
            "InsecurelyGeneratedTokenRevoked.root_cause"}
        |-> CASE c = "Forbidden.root_cause" -> Forbidden
              [] c = "NotFound.root_cause" -> NotFound
              [] c = "ReadOnlyMode.root_cause" -> ReadOnlyMode
              [] c = "TooManyRequests.root_cause" -> TooManyRequestsError
              [] c = "InsecurelyGeneratedTokenRevoked.root_cause"
                     -> InsecurelyGeneratedTokenRevoked]

\* the responses the kind can produce
KindResponses(kind) ==
    CASE kind = Forbidden -> {Forbidden_response}
      [] kind = NotFound -> {NotFound_response}
      [] kind = ReadOnlyMode -> {ReadOnlyMode_response}
      [] kind = InsecurelyGeneratedTokenRevoked
             -> {InsecurelyGeneratedTokenRevoked_response}
      [] kind = TooManyRequestsError
             -> {TooManyRequests_response(TooManyRequests(t)) : t \in RetryAfters}

\* C32: a Fault made by a catalog kind's root_cause has that kind as its
\* Error root and the kind's own response committed, so root_cause_is(kind)
\* holds, for that kind only, and the rendered chain ends with the kind's
\* display text: Forbidden.root_cause followed by
\* chain_internal_err_cause("outer") renders "outer caused by Forbidden".
C32_RootCauseConstructors ==
    (origin.by \in DOMAIN RootCauseKinds /\ IsFault(result)) =>
        LET kind == RootCauseKinds[origin.by]
        IN /\ origin.value.builder.chain = <<Error(kind)>>
           /\ is_some(origin.value.builder.user_facing_response)
           /\ unwrap(origin.value.builder.user_facing_response) \in KindResponses(kind)
           /\ result.builder.user_facing_response
                  = origin.value.builder.user_facing_response
           /\ result.builder.chain = <<Error(kind)>> \o ContextOf(history)
           /\ \A T \in ErrorTypes \cup {"TooManyRequests", "GhNotFound"} :
                  root_cause_is(result.builder, T) <=> T = kind.type
           /\ ends_with(cause_chain(result.builder), to_string(kind))
           /\ (origin.by = "Forbidden.root_cause" /\ AppendedTexts(history) = <<"outer">>)
                  => cause_chain(result.builder) = "outer caused by Forbidden"

C32_Witness ==
    /\ origin.by = "Forbidden.root_cause"
    /\ IsFault(result)
    /\ AppendedTexts(history) = <<"outer">>
    /\ root_cause_is(result.builder, "Forbidden")
    /\ unwrap(result.builder.user_facing_response).status = 403
    /\ cause_chain(result.builder) = "outer caused by Forbidden"

IsChainStep == IsProposeStep \/ IsAppendStep

\* C33: both chain methods keep success and failure apart: on Ok(v) or Some(v)
\* they return Ok(v), make no builder and run no callback; on Err or None they
\* return an Err, so the unwrap_err in handle_error_response never panics.
C33_SuccessAndFailureKept ==
    /\ [][IsChainStep =>
              /\ result.tag \in {"Ok", "Some"} =>
                     /\ result' = Ok("AppResult", result.value)
                     /\ ~IsFault(result')
                     /\ calls' = calls
              /\ result.tag \in {"Err", "None"} => IsFault(result')]_vars
    /\ [](origin.by = "github_api" => (pc # "panicked" /\ ~IsPanic(origin.value)))

C33_Witness ==
    /\ origin.by = "github_api"
    /\ IsFault(origin.value)
    /\ origin.value.builder.chain = <<Error(GhNotFound)>>
    /\ Len(ChainOps(history)) = MaxOps
    /\ IsPropose(history[1])
    /\ IsFault(result)

\* C34: on None, chain_user_facing_fallback runs the callback exactly once and
\* returns a builder with an empty chain and the callback's response, which
\* build returns with cause None; chain_internal_err_cause on None returns a
\* builder whose chain is exactly <<Internal(text)>> with no response.
C34_AbsentValue ==
    /\ [][(IsChainStep /\ result = OptionNone) =>
              LET arg == Last(history').arg
              IN IF IsProposeStep
                 THEN /\ result' = AppErr(ErrorBuilder(<<>>, Some(callback(arg))))
                      /\ calls' = [calls EXCEPT ![arg] = @ + 1]
                 ELSE /\ result' = AppErr(ErrorBuilder(<<Internal(arg)>>, None))
                      /\ calls' = calls]_vars
    /\ []((/\ pc = "built"
           /\ origin.value = OptionNone
           /\ Len(history) = 1
           /\ IsPropose(history[1]))
              => built = Response(callback(history[1].arg), None))

C34_Witness ==
    /\ pc = "built"
    /\ origin.value = OptionNone
    /\ Len(history) = 1
    /\ IsPropose(history[1])
    /\ calls[history[1].arg] = 1
    /\ built.tag = "Response"
    /\ built.cause = None

\* C35: chain_user_facing_fallback on a builder leaves its chain as it was,
\* the same entries in the same order, whether the call commits the response
\* or finds one already committed.
C35_ProposeKeepsChain ==
    [][(IsProposeStep /\ IsFault(result)) =>
           /\ IsFault(result')
           /\ result'.builder.chain = result.builder.chain
           /\ Len(result'.builder.chain) = Len(result.builder.chain)]_vars

C35_Witness ==
    /\ Len(history) = MaxOps
    /\ IsPropose(Last(history))
    /\ Uncommitted(Last(history).self)
    /\ Committed(result)
    /\ Len(result.builder.chain) = MaxOps
    /\ result.builder.chain = Last(history).self.builder.chain

\* the last two calls were made on a builder, one of each method
LastTwoOn(first, second) ==
    /\ Len(history) >= 2
    /\ history[Len(history) - 1].op = first
    /\ history[Len(history)].op = second
    /\ IsFault(history[Len(history) - 1].self)

\* the same two calls made in the other order on the same builder
Swapped ==
    LET h1 == history[Len(history) - 1]
        h2 == history[Len(history)]
    IN IF IsAppend(h1)
       THEN LET p == chain_user_facing_fallback(h1.self, h2.arg)
            IN Returned(chain_internal_err_cause(p.result, h1.arg), p.invoked)
       ELSE chain_user_facing_fallback(chain_internal_err_cause(h1.self, h2.arg), h1.arg)

\* C36: chain_internal_err_cause(t) and chain_user_facing_fallback(cb)
\* commute on a builder: made in either order they give the same chain and
\* the same committed response, run the callback the same number of times, and build
\* returns the same outcome.
C36_AppendProposeCommute ==
    (\/ LastTwoOn("chain_internal_err_cause", "chain_user_facing_fallback")
     \/ LastTwoOn("chain_user_facing_fallback", "chain_internal_err_cause")) =>
        LET h1 == history[Len(history) - 1]
            h2 == history[Len(history)]
            p == IF IsPropose(h1) THEN h1 ELSE h2
        IN /\ Swapped.invoked = chain_user_facing_fallback(p.self, p.arg).invoked
           /\ pc = "handling" =>
                  /\ result = Swapped.result
                  /\ result.builder.chain = Swapped.result.builder.chain
                  /\ result.builder.user_facing_response
                         = Swapped.result.builder.user_facing_response
           /\ pc = "built" => built = build(Swapped.result.builder)

C36_Witness ==
    /\ pc = "built"
    /\ LastTwoOn("chain_internal_err_cause", "chain_user_facing_fallback")
    /\ Uncommitted(Last(history).self)
    /\ Len(Last(history).self.builder.chain) = 2
    /\ built.tag = "Response"
    /\ built = build(Swapped.result.builder)
    /\ built.cause = Some(Last(history).self.builder.chain[2].info
                              \o " caused by "
                              \o element_text(Last(history).self.builder.chain[1]))

ReauthenticateMessage ==
    "It looks like you don't have permission to query a necessary property from "
        \o "Github to complete this request. You may need to re-authenticate on "
        \o "crates.io to grant permission to read github org memberships. Just go "
        \o "to https://crates.io/login"

\* the GitHub API answered the request with an error status
GithubStatusError ==
    /\ origin.by = "github_api"
    /\ origin.sent.tag = "Ok"
    /\ origin.sent.value.status >= 400

\* C37: github_api maps the status of an error response: 401 and 403 give a
\* builder with an empty chain and the CargoLegacy (200) re-authentication
\* message committed; 404 gives a builder whose root cause is GhNotFound with
\* the NotFound (404) response committed; every other status gives a builder
\* with one Internal entry and no response, which build returns as an Error.
C37_GithubErrorMapping ==
    GithubStatusError =>
        LET status == origin.sent.value.status
            f == origin.value
        IN /\ IsFault(f)
           /\ status \in {401, 403} =>
                  /\ f.builder.chain = <<>>
                  /\ is_some(f.builder.user_facing_response)
                  /\ unwrap(f.builder.user_facing_response).status = 200
                  /\ HasDetail(unwrap(f.builder.user_facing_response),
                               ReauthenticateMessage)
           /\ status = 404 =>
                  /\ root_cause_is(f.builder, "GhNotFound")
                  /\ f.builder.chain = <<Error(GhNotFound)>>
                  /\ f.builder.user_facing_response = Some(NotFound_response)
                  /\ NotFound_response.status = 404
           /\ status \notin {401, 403, 404} =>
                  /\ Len(f.builder.chain) = 1
                  /\ f.builder.chain[1].tag = "Internal"
                  /\ is_none(f.builder.user_facing_response)
                  /\ (pc \in {"built", "handled", "sent"} /\ Proposes(history) = <<>>)
                         => built.tag = "Error"

C37_Witness ==
    /\ GithubStatusError
    /\ origin.sent.value.status = 500
    /\ pc = "built"
    /\ history = <<>>
    /\ built.tag = "Error"
    /\ built.error.message
           = "didn't get a 200 result from github: HTTP status server error (500)"

====
